---- MODULE Spec2Model ----
(***************************************************************************)
(* Event bridge of the workspace coordinator: the broadcast hub            *)
(* (apps/api websocket server), the gateway connection manager             *)
(* (OpenClawClient) and the task-state reconciler (OpenClawBridge).        *)
(* Each component has its own specification over its own variables.        *)
(***************************************************************************)
EXTENDS Integers, Sequences, FiniteSets, TLC

(***************************************************************************)
(* Universes                                                               *)
(***************************************************************************)
Conns == {"w1", "w2"}              \* observer sockets that may ever connect
TaskIds == {"t1", "t2"}            \* task identities
NoTask == "none"                   \* message.data.taskId undefined

VARIABLES
  \* ---- broadcast hub (createWebSocketServer) ----
  clients,        \* Map<WebSocket, WSClient>: conn -> [subscribedTasks, isAlive]
  readyState,     \* ws.readyState of every observer socket
  lastOp,         \* the latest hub operation that writes to sockets, and its message
  sent,           \* the frames that operation wrote to each socket, in order
  awaitingPong,   \* conn was pinged by the heartbeat and no pong came since
  \* ---- gateway connection manager (OpenClawClient) ----
  gatewayWs,           \* readyState of the socket this.ws refers to, or "null"
  detached,            \* sockets this.ws no longer refers to, handlers still attached
  reconnectAttempts,   \* this.reconnectAttempts
  isConnecting,        \* this.isConnecting
  timers,              \* pending reconnect timers, by the attempt that scheduled them
  ownerDisconnected,   \* the owner called disconnect() and not connect() since
  scheduledSinceOpen,  \* reconnect timers scheduled since the last 'open' event
  emitted,             \* what the manager's latest call or socket handler did, in order
  lastDelay,           \* delay of the reconnect timer set most recently, 0 before the first
  \* ---- task-state reconciler (OpenClawBridge) and its tables ----
  tasks,               \* tasks table
  agents,              \* agents table
  activities,          \* activities table: rows per (taskId, action)
  outputBuffers,       \* output_buffers table: contents of the rows of each run
  outputAccumulators,  \* this.outputAccumulators
  handlers,            \* handler invocations in flight, in arrival order
  eventCount,          \* inbound events delivered so far
  endedRuns,           \* runs whose lifecycle:end was delivered at least once
  received,            \* per run, the delta texts delivered so far, concatenated
  flushLog,            \* per lifecycle:end handler: the output it stored and the text received before it
  lastFrame,           \* the gateway frame the 'message' handler got most recently
  eventLog,            \* the events delivered one after the other, each after the handler before it returned
  assign,              \* the assignTaskToAgent call for t2: its position, the run id it holds, what the gateway did
  \* ---- observer-side client (dashboard useWebSocket store) ----
  dashboard            \* the store's socket, isConnected, reconnectAttempts, and its sockets and timers

hubVars == <<clients, readyState, lastOp, sent, awaitingPong>>

clientVars == <<gatewayWs, detached, reconnectAttempts, isConnecting, timers,
                ownerDisconnected, scheduledSinceOpen, emitted, lastDelay>>

bridgeVars == <<tasks, agents, activities, outputBuffers, outputAccumulators,
                handlers, eventCount, endedRuns, received, flushLog, lastFrame, eventLog,
                assign>>

vars == <<clients, readyState, lastOp, sent, awaitingPong,
          gatewayWs, detached, reconnectAttempts, isConnecting, timers,
          ownerDisconnected, scheduledSinceOpen, emitted, lastDelay,
          tasks, agents, activities, outputBuffers, outputAccumulators,
          handlers, eventCount, endedRuns, received, flushLog, lastFrame, eventLog,
                assign, dashboard>>

(***************************************************************************)
(* Broadcast hub                                                           *)
(***************************************************************************)
BridgeMsgTypes == {"task_update", "agent_update", "activity", "output_delta"}

WSClient(subs, alive) == [subscribedTasks |-> subs, isAlive |-> alive]

Registered == DOMAIN clients

Msg(type, taskId) == [type |-> type, taskId |-> taskId]

\* one recorded operation; flip tells two equal consecutive operations apart
Op(op, message) == [op |-> op, message |-> message, flip |-> ~lastOp.flip]

NoFrames == [c \in Conns |-> << >>]

\* send(ws, message): written only when the socket is OPEN
send(box, ws, message) ==
  IF readyState[ws] = "OPEN"
  THEN [box EXCEPT ![ws] = Append(@, message)]
  ELSE box

\* clients.forEach(...send...): each selected connection is visited once
RECURSIVE sendEach(_, _, _)
sendEach(box, targets, message) ==
  IF targets = {} THEN box
  ELSE LET ws == CHOOSE w \in targets : TRUE
       IN sendEach(send(box, ws, message), targets \ {ws}, message)

\* a broadcast that skips the connections holding a task subscription
broadcast_unsubscribedOnly(box, message) ==
  sendEach(box, {ws \in Registered : clients[ws].subscribedTasks = {}}, message)

\* broadcast(message)
broadcast(box, message) == sendEach(box, Registered, message)

\* a selection that forgets the subscription test
taskTargets_noFilter(taskId) == Registered

\* the connections broadcastToTask(taskId, ...) selects
taskTargets(taskId) == {ws \in Registered : taskId \in clients[ws].subscribedTasks}

\* broadcastToTask(taskId, message)
broadcastToTask(box, taskId, message) == sendEach(box, taskTargets(taskId), message)

\* bridge.on('ws:broadcast', message)
onWsBroadcast(box, message) ==
  LET first == IF message.type \in {"task_update", "output_delta"}
                    /\ message.taskId # NoTask
               THEN broadcastToTask(box, message.taskId, message)
               ELSE box
  IN broadcast(first, message)

InitHub ==
  /\ clients = << >>
  /\ readyState = [c \in Conns |-> "NEW"]
  /\ lastOp = [op |-> "none", message |-> Msg("none", NoTask), flip |-> FALSE]
  /\ sent = NoFrames
  /\ awaitingPong = [c \in Conns |-> FALSE]

\* wss.on('connection', ws)
Connection(ws) ==
  /\ readyState[ws] = "NEW"
  /\ readyState' = [readyState EXCEPT ![ws] = "OPEN"]
  /\ clients' = [c \in Registered \cup {ws} |->
                   IF c = ws THEN WSClient({}, TRUE) ELSE clients[c]]
  /\ lastOp' = Op("connection", Msg("stats_update", NoTask))
  /\ sent' = [NoFrames EXCEPT ![ws] = <<lastOp'.message>>]
  /\ UNCHANGED awaitingPong
  /\ UNCHANGED <<clientVars, bridgeVars, dashboard>>

\* ws.on('pong')
Pong(ws) ==
  /\ readyState[ws] = "OPEN"
  /\ clients' = IF ws \in Registered
                THEN [clients EXCEPT ![ws].isAlive = TRUE]
                ELSE clients
  /\ awaitingPong' = [awaitingPong EXCEPT ![ws] = FALSE]
  /\ UNCHANGED <<readyState, lastOp, sent>>
  /\ UNCHANGED <<clientVars, bridgeVars, dashboard>>

\* handleClientMessage: case 'subscribe:task'
Subscribe(ws, taskId) ==
  /\ readyState[ws] = "OPEN" /\ ws \in Registered
  /\ clients' = [clients EXCEPT ![ws].subscribedTasks = @ \cup {taskId}]
  /\ UNCHANGED <<readyState, lastOp, sent, awaitingPong>>
  /\ UNCHANGED <<clientVars, bridgeVars, dashboard>>

\* handleClientMessage: case 'unsubscribe:task'
Unsubscribe(ws, taskId) ==
  /\ readyState[ws] = "OPEN" /\ ws \in Registered
  /\ clients' = [clients EXCEPT ![ws].subscribedTasks = @ \ {taskId}]
  /\ UNCHANGED <<readyState, lastOp, sent, awaitingPong>>
  /\ UNCHANGED <<clientVars, bridgeVars, dashboard>>

\* handleClientMessage: case 'ping'
ClientPing(ws) ==
  /\ readyState[ws] = "OPEN" /\ ws \in Registered
  /\ lastOp' = Op("ping", Msg("pong", NoTask))
  /\ sent' = send(NoFrames, ws, lastOp'.message)
  /\ UNCHANGED <<clients, readyState, awaitingPong>>
  /\ UNCHANGED <<clientVars, bridgeVars, dashboard>>

\* the peer's close frame arrives: the socket leaves OPEN before 'close' is emitted
PeerClosing(ws) ==
  /\ readyState[ws] = "OPEN"
  /\ readyState' = [readyState EXCEPT ![ws] = "CLOSING"]
  /\ UNCHANGED <<clients, lastOp, sent, awaitingPong>>
  /\ UNCHANGED <<clientVars, bridgeVars, dashboard>>

\* ws.on('close')
Close(ws) ==
  /\ readyState[ws] \in {"OPEN", "CLOSING"}
  /\ readyState' = [readyState EXCEPT ![ws] = "CLOSED"]
  /\ clients' = [c \in Registered \ {ws} |-> clients[c]]
  /\ awaitingPong' = [awaitingPong EXCEPT ![ws] = FALSE]
  /\ UNCHANGED <<lastOp, sent>>
  /\ UNCHANGED <<clientVars, bridgeVars, dashboard>>

\* a heartbeat that deletes every connection it finds
evicted_all == Registered

\* a heartbeat that pings but never deletes
evicted_never == {}

\* the connections one heartbeat tick deletes and terminates
evicted == {ws \in Registered : ~clients[ws].isAlive}

\* heartbeatInterval callback
HeartbeatTick ==
  /\ clients' = [c \in Registered \ evicted |-> [clients[c] EXCEPT !.isAlive = FALSE]]
  /\ readyState' = [c \in Conns |-> IF c \in evicted THEN "CLOSING" ELSE readyState[c]]
  /\ awaitingPong' = [c \in Conns |-> c \in Registered']
  /\ lastOp' = Op("tick", Msg("none", NoTask))
  /\ sent' = NoFrames
  /\ UNCHANGED <<clientVars, bridgeVars, dashboard>>

\* exported broadcast(message)
Broadcast(type) ==
  /\ lastOp' = Op("broadcast", Msg(type, NoTask))
  /\ sent' = broadcast(NoFrames, lastOp'.message)
  /\ UNCHANGED <<clients, readyState, awaitingPong>>
  /\ UNCHANGED <<clientVars, bridgeVars, dashboard>>

\* exported broadcastToTask(taskId, message)
BroadcastToTask(taskId, type) ==
  /\ lastOp' = Op("broadcastToTask", Msg(type, taskId))
  /\ sent' = broadcastToTask(NoFrames, taskId, lastOp'.message)
  /\ UNCHANGED <<clients, readyState, awaitingPong>>
  /\ UNCHANGED <<clientVars, bridgeVars, dashboard>>

\* bridge.emit('ws:broadcast', message) reaching the hub's listener
WsBroadcast(type, taskId) ==
  /\ lastOp' = Op("bridge", Msg(type, taskId))
  /\ sent' = onWsBroadcast(NoFrames, lastOp'.message)
  /\ UNCHANGED <<clients, readyState, awaitingPong>>
  /\ UNCHANGED <<clientVars, bridgeVars, dashboard>>

NextHub ==
  \/ \E ws \in Conns : Connection(ws)
  \/ \E ws \in Conns : Pong(ws)
  \/ \E ws \in Conns, t \in TaskIds : Subscribe(ws, t)
  \/ \E ws \in Conns, t \in TaskIds : Unsubscribe(ws, t)
  \/ \E ws \in Conns : ClientPing(ws)
  \/ \E ws \in Conns : PeerClosing(ws)
  \/ \E ws \in Conns : Close(ws)
  \/ HeartbeatTick
  \/ \E ty \in {"agent_update", "activity"} : Broadcast(ty)
  \/ \E t \in TaskIds, ty \in {"task_update", "output_delta"} : BroadcastToTask(t, ty)
  \/ \E ty \in BridgeMsgTypes, t \in TaskIds \cup {NoTask} : WsBroadcast(ty, t)

(***************************************************************************)
(* Gateway connection manager                                              *)
(***************************************************************************)
maxReconnectAttempts == 10
reconnectDelay == 1000
MaxPending == 2     \* owner connect() calls are made while fewer sockets and timers are pending

SocketStates == {"CONNECTING", "OPEN", "CLOSING"}

RECURSIVE Pow2(_)
Pow2(n) == IF n = 0 THEN 1 ELSE 2 * Pow2(n - 1)

\* a delay that grows by reconnectDelay with every attempt
delay_linear(k) == reconnectDelay * k

\* delay of the timer scheduled as attempt k
delay(k) == reconnectDelay * Pow2(k - 1)

NoTimers == [k \in 1..(maxReconnectAttempts + 1) |-> 0]

RECURSIVE SumTo(_, _)
SumTo(f, n) == IF n = 0 THEN 0 ELSE f[n] + SumTo(f, n - 1)

PendingTimers == SumTo(timers, maxReconnectAttempts + 1)

DetachedCount == detached["CONNECTING"] + detached["OPEN"] + detached["CLOSING"]

\* sockets that are not closed, whether this.ws refers to them or not
LiveSockets == DetachedCount + (IF gatewayWs \in SocketStates THEN 1 ELSE 0)

detach(bag, state) ==
  IF state \in SocketStates THEN [bag EXCEPT ![state] = @ + 1] ELSE bag

InitClient ==
  /\ gatewayWs = "null"
  /\ detached = [st \in SocketStates |-> 0]
  /\ reconnectAttempts = 0
  /\ isConnecting = FALSE
  /\ timers = NoTimers
  /\ ownerDisconnected = FALSE
  /\ scheduledSinceOpen = 0
  /\ emitted = << >>
  /\ lastDelay = 0

\* connect(): the guard and the creation of the socket
connect ==
  IF isConnecting \/ gatewayWs = "OPEN"
  THEN UNCHANGED <<gatewayWs, detached, isConnecting>>
  ELSE /\ isConnecting' = TRUE
       /\ gatewayWs' = "CONNECTING"
       /\ detached' = detach(detached, gatewayWs)

\* off by one: the ceiling test lets one more attempt through
reconnectExhausted_offByOne(attempts) == attempts > maxReconnectAttempts

\* scheduleReconnect(): the ceiling test
reconnectExhausted(attempts) == attempts >= maxReconnectAttempts

\* scheduleReconnect()
scheduleReconnect ==
  IF reconnectExhausted(reconnectAttempts)
  THEN UNCHANGED <<reconnectAttempts, timers, scheduledSinceOpen, lastDelay>>
  ELSE /\ reconnectAttempts' = reconnectAttempts + 1
       /\ lastDelay' = delay(reconnectAttempts')
       /\ timers' = [timers EXCEPT ![reconnectAttempts + 1] = @ + 1]
       /\ scheduledSinceOpen' = scheduledSinceOpen + 1

\* the 'open' handler: emit('connected'), then this.ws?.send(subscribe), then
\* resolve(); target is the state of the socket this.ws refers to (send throws
\* on a socket that is still connecting and writes nothing to one that is
\* closing or closed)
onOpen(target) ==
  <<"connected">> \o (CASE target = "OPEN" -> <<"subscribe", "resolve">>
                        [] target = "CONNECTING" -> << >>
                        [] OTHER -> <<"resolve">>)

\* the 'error' handler: emit('error', err), then reject(err) on a first attempt
onError == <<"error">> \o (IF reconnectAttempts = 0 THEN <<"reject">> ELSE << >>)

\* the 'close' handler: emit('disconnected', ...), then scheduleReconnect(),
\* which logs at the ceiling and sets a timer below it
onClose ==
  <<"disconnected">> \o (IF reconnectExhausted(reconnectAttempts)
                          THEN <<"console.error">> ELSE <<"setTimeout">>)

\* the owner calls connect()
OwnerConnect ==
  /\ LiveSockets + PendingTimers < MaxPending
  /\ connect
  /\ ownerDisconnected' = FALSE
  /\ emitted' = << >>
  /\ UNCHANGED <<reconnectAttempts, timers, scheduledSinceOpen, lastDelay>>
  /\ UNCHANGED <<hubVars, bridgeVars, dashboard>>

\* the setTimeout callback of scheduleReconnect()
TimerFire(k) ==
  /\ timers[k] > 0
  /\ timers' = [timers EXCEPT ![k] = @ - 1]
  /\ connect
  /\ emitted' = << >>
  /\ UNCHANGED <<reconnectAttempts, ownerDisconnected, scheduledSinceOpen, lastDelay>>
  /\ UNCHANGED <<hubVars, bridgeVars, dashboard>>

\* disconnect()
Disconnect ==
  /\ reconnectAttempts' = maxReconnectAttempts
  /\ detached' = detach(detached, IF gatewayWs \in {"CONNECTING", "OPEN"} THEN "CLOSING" ELSE gatewayWs)
  /\ gatewayWs' = "null"
  /\ ownerDisconnected' = TRUE
  /\ emitted' = << >>
  /\ UNCHANGED <<isConnecting, timers, scheduledSinceOpen, lastDelay>>
  /\ UNCHANGED <<hubVars, bridgeVars, dashboard>>

\* ws.on('open') of the socket this.ws refers to
Open ==
  /\ gatewayWs = "CONNECTING"
  /\ gatewayWs' = "OPEN"
  /\ isConnecting' = FALSE
  /\ reconnectAttempts' = 0
  /\ scheduledSinceOpen' = 0
  /\ emitted' = onOpen(gatewayWs')
  /\ UNCHANGED <<detached, timers, ownerDisconnected, lastDelay>>
  /\ UNCHANGED <<hubVars, bridgeVars, dashboard>>

\* ws.on('open') of a socket this.ws no longer refers to
OpenDetached ==
  /\ detached["CONNECTING"] > 0
  /\ detached' = [detached EXCEPT !["CONNECTING"] = @ - 1, !["OPEN"] = @ + 1]
  /\ isConnecting' = FALSE
  /\ reconnectAttempts' = 0
  /\ scheduledSinceOpen' = 0
  /\ emitted' = onOpen(gatewayWs)
  /\ UNCHANGED <<gatewayWs, timers, ownerDisconnected, lastDelay>>
  /\ UNCHANGED <<hubVars, bridgeVars, dashboard>>

\* ws.on('error') of an open socket; its 'close' follows later
SocketError ==
  /\ gatewayWs = "OPEN"
  /\ gatewayWs' = "CLOSING"
  /\ isConnecting' = FALSE
  /\ emitted' = onError
  /\ UNCHANGED <<detached, reconnectAttempts, timers, ownerDisconnected, scheduledSinceOpen,
                 lastDelay>>
  /\ UNCHANGED <<hubVars, bridgeVars, dashboard>>

\* ws.on('error') of an open socket this.ws no longer refers to
SocketErrorDetached ==
  /\ detached["OPEN"] > 0
  /\ detached' = [detached EXCEPT !["OPEN"] = @ - 1, !["CLOSING"] = @ + 1]
  /\ isConnecting' = FALSE
  /\ emitted' = onError
  /\ UNCHANGED <<gatewayWs, reconnectAttempts, timers, ownerDisconnected, scheduledSinceOpen,
                 lastDelay>>
  /\ UNCHANGED <<hubVars, bridgeVars, dashboard>>

\* ws.on('close') of the socket this.ws refers to (after a failed handshake the
\* 'error' handler has run just before; it also clears isConnecting)
SocketClose ==
  /\ gatewayWs \in SocketStates
  /\ gatewayWs' = "CLOSED"
  /\ isConnecting' = FALSE
  /\ emitted' = (IF gatewayWs = "CONNECTING" THEN onError ELSE << >>) \o onClose
  /\ scheduleReconnect
  /\ UNCHANGED <<detached, ownerDisconnected>>
  /\ UNCHANGED <<hubVars, bridgeVars, dashboard>>

\* ws.on('close') of a socket this.ws no longer refers to
SocketCloseDetached(state) ==
  /\ detached[state] > 0
  /\ detached' = [detached EXCEPT ![state] = @ - 1]
  /\ isConnecting' = FALSE
  /\ emitted' = (IF state = "CONNECTING" THEN onError ELSE << >>) \o onClose
  /\ scheduleReconnect
  /\ UNCHANGED <<gatewayWs, ownerDisconnected>>
  /\ UNCHANGED <<hubVars, bridgeVars, dashboard>>

NextClient ==
  \/ OwnerConnect
  \/ \E k \in 1..(maxReconnectAttempts + 1) : TimerFire(k)
  \/ Disconnect
  \/ Open
  \/ OpenDetached
  \/ SocketError
  \/ SocketErrorDetached
  \/ SocketClose
  \/ \E st \in SocketStates : SocketCloseDetached(st)

(***************************************************************************)
(* Task-state reconciler                                                   *)
(***************************************************************************)
MaxEvents == 3       \* inbound events delivered
MaxInFlight == 2     \* handler invocations suspended at an await at one time

AgentIds == {"a1"}
RunIds == {"r1", "r2", "r3"}       \* r3 is the run of no task
EventRuns == {"r1", "r3"}          \* runs the gateway reports events for
NoAgent == "none"
Texts == {<<"a">>, <<"b">>}        \* assistant delta texts
ErrorText == <<"e">>               \* data.error of a lifecycle error
Tokens == [r \in RunIds |-> IF r = "r1" THEN 1 ELSE 2]   \* data.tokens of a run's end event

\* a lookup that falls back to a task row when none has the run
findTaskByRunId_fallback(runId) ==
  IF \E t \in TaskIds : tasks[t].openclawRunId = runId
  THEN CHOOSE t \in TaskIds : tasks[t].openclawRunId = runId
  ELSE "t1"

\* the task row whose openclawRunId is runId, or NoTask
findTaskByRunId(runId) ==
  IF \E t \in TaskIds : tasks[t].openclawRunId = runId
  THEN CHOOSE t \in TaskIds : tasks[t].openclawRunId = runId
  ELSE NoTask

\* the task of runId is done (when an event for the run is delivered)
isDone(runId) ==
  findTaskByRunId(runId) # NoTask /\ tasks[findTaskByRunId(runId)].status = "done"

\* this.outputAccumulators.get(runId) || ''
accumulated(runId) ==
  IF runId \in DOMAIN outputAccumulators THEN outputAccumulators[runId] ELSE << >>

Handler(kind, runId, pc, arg) ==
  [kind |-> kind, runId |-> runId, pc |-> pc, arg |-> arg,
   task |-> NoTask, output |-> << >>, agentRead |-> [completedTasks |-> 0, totalTokens |-> 0],
   expected |-> << >>, afterDone |-> FALSE]

RemoveAt(seq, i) == SubSeq(seq, 1, i - 1) \o SubSeq(seq, i + 1, Len(seq))

\* handler i goes on to its next await
goto(i, pc) == handlers' = [handlers EXCEPT ![i].pc = pc]

\* handler i returns
finish(i) == handlers' = RemoveAt(handlers, i)

\* this.emit('ws:broadcast', ...) for each message in turn: the hub's listener runs
RECURSIVE emitFrames(_, _)
emitFrames(box, msgs) ==
  IF msgs = << >> THEN box
  ELSE emitFrames(onWsBroadcast(box, Head(msgs)), Tail(msgs))

emit(msgs) ==
  /\ lastOp' = Op("bridge", msgs[Len(msgs)])
  /\ sent' = emitFrames(NoFrames, msgs)
  /\ UNCHANGED <<clients, readyState, awaitingPong>>

\* createActivity(taskId, agentId, action, ...)
createActivity(taskId, action) ==
  activities' = [activities EXCEPT ![<<taskId, action>>] = @ + 1]

Actions == {"task_started", "task_completed", "task_failed", "status_changed",
            "task_assigned"}

NoRun == "none"                    \* openclawRunId undefined

NoAssign == [pc |-> "idle", runId |-> NoRun, accepted |-> FALSE,
             started |-> FALSE, ended |-> FALSE]

\* a gateway frame: the JSON text {type, payload} with the payload's run id,
\* its stream (agent) or state (chat), data.phase and the text it carries;
\* wellFormed is FALSE for a text JSON.parse rejects (a truncated frame)
Frame(type, sub, phase, runId, text) ==
  [wellFormed |-> TRUE, type |-> type, sub |-> sub, phase |-> phase,
   runId |-> runId, text |-> text]

NoFrame == Frame("none", "", "", "none", << >>)

GatewayFrames ==
  {Frame("agent", "lifecycle", ph, r, << >>) :
     ph \in {"start", "end", "error", "paused"}, r \in EventRuns}
  \cup {Frame("agent", "tool", "", r, << >>) : r \in EventRuns}
  \cup {Frame("agent", "assistant", "", r, t) : r \in EventRuns, t \in Texts}
  \cup {Frame("agent", "error", "", r, << >>) : r \in EventRuns}
  \cup {Frame("chat", st, "", r, <<"a">>) : st \in {"delta", "final", "error"}, r \in EventRuns}
  \cup {Frame(ty, "", "", "r1", << >>) : ty \in {"session", "heartbeat"}}
  \cup {Frame("lifecycle:start", "", "", r, << >>) : r \in EventRuns}   \* payload is the run id

TruncatedFrames ==
  {[f EXCEPT !.wellFormed = FALSE] :
     f \in {Frame("agent", "lifecycle", "start", "r1", << >>),
            Frame("agent", "assistant", "", "r1", <<"a">>)}}

\* both tasks assigned to a1, each with its run
AssignedTasks ==
  [t \in TaskIds |->
     [status |-> "assigned", outcome |-> "none", output |-> << >>,
      tokensUsed |-> 0, assignedAgentId |-> "a1",
      openclawRunId |-> IF t = "t1" THEN "r1" ELSE "r2"]]

\* the tables and the bridge before any event
InitReconciler ==
  /\ agents = [a \in AgentIds |-> [status |-> "working", completedTasks |-> 0, totalTokens |-> 0]]
  /\ activities = [k \in TaskIds \X Actions |-> 0]
  /\ outputBuffers = [r \in RunIds |-> << >>]
  /\ outputAccumulators = << >>
  /\ handlers = << >>
  /\ eventCount = 0
  /\ endedRuns = {}
  /\ received = [r \in RunIds |-> << >>]
  /\ flushLog = {}
  /\ lastFrame = NoFrame
  /\ eventLog = << >>
  /\ assign = NoAssign

InitBridge ==
  /\ tasks = AssignedTasks
  /\ InitReconciler

\* an event listener of setupEventListeners calls its handler, which runs up to
\* its first await
arrive(h) ==
  /\ Len(handlers) < MaxInFlight
  /\ eventCount' = eventCount + 1
  /\ handlers' = Append(handlers, h)

\* events.on('lifecycle:start')
handleLifecycleStart(runId) ==
  /\ arrive([Handler("start", runId, "find", << >>) EXCEPT !.afterDone = isDone(runId)])
  /\ UNCHANGED <<tasks, agents, activities, outputBuffers, outputAccumulators,
                 endedRuns, received, flushLog>>
  /\ UNCHANGED <<hubVars, clientVars, dashboard>>

\* events.on('lifecycle:end')
handleLifecycleEnd(runId) ==
  /\ arrive([Handler("end", runId, "find", << >>) EXCEPT !.expected = received[runId]])
  /\ endedRuns' = endedRuns \cup {runId}
  /\ UNCHANGED <<tasks, agents, activities, outputBuffers, outputAccumulators,
                 received, flushLog>>
  /\ UNCHANGED <<hubVars, clientVars, dashboard>>

\* events.on('lifecycle:error')
handleLifecycleError(runId) ==
  /\ arrive([Handler("error", runId, "find", ErrorText) EXCEPT !.expected = received[runId]])
  /\ UNCHANGED <<tasks, agents, activities, outputBuffers, outputAccumulators,
                 endedRuns, received, flushLog>>
  /\ UNCHANGED <<hubVars, clientVars, dashboard>>

\* events.on('tool:call')
handleToolCall(runId) ==
  /\ arrive(Handler("tool", runId, "find", << >>))
  /\ UNCHANGED <<tasks, agents, activities, outputBuffers, outputAccumulators,
                 endedRuns, received, flushLog>>
  /\ UNCHANGED <<hubVars, clientVars, dashboard>>

\* events.on('assistant:delta'): handleAssistantDelta accumulates before its first await
handleAssistantDelta(runId, text) ==
  /\ arrive([Handler("delta", runId, "find", text) EXCEPT !.output = accumulated(runId) \o text])
  /\ outputAccumulators' =
       [r \in DOMAIN outputAccumulators \cup {runId} |->
          IF r = runId THEN accumulated(runId) \o text ELSE outputAccumulators[r]]
  /\ received' = [received EXCEPT ![runId] = @ \o text]
  /\ UNCHANGED <<tasks, agents, activities, outputBuffers, endedRuns, flushLog>>
  /\ UNCHANGED <<hubVars, clientVars, dashboard>>

\* events.on('assistant:final'): handleAssistantFinal has an empty body
handleAssistantFinal(runId) ==
  /\ eventCount' = eventCount + 1
  /\ UNCHANGED <<tasks, agents, activities, outputBuffers, outputAccumulators,
                 handlers, endedRuns, received, flushLog>>
  /\ UNCHANGED <<hubVars, clientVars, dashboard>>

\* the listener of setupEventListeners is called with an event of the gateway
LifecycleStart(runId) ==
  /\ eventCount < MaxEvents
  /\ handleLifecycleStart(runId)
  /\ UNCHANGED <<lastFrame, eventLog, assign>>

LifecycleEnd(runId) ==
  /\ eventCount < MaxEvents
  /\ handleLifecycleEnd(runId)
  /\ UNCHANGED <<lastFrame, eventLog, assign>>

LifecycleError(runId) ==
  /\ eventCount < MaxEvents
  /\ handleLifecycleError(runId)
  /\ UNCHANGED <<lastFrame, eventLog, assign>>

ToolCall(runId) ==
  /\ eventCount < MaxEvents
  /\ handleToolCall(runId)
  /\ UNCHANGED <<lastFrame, eventLog, assign>>

AssistantDelta(runId, text) ==
  /\ eventCount < MaxEvents
  /\ handleAssistantDelta(runId, text)
  /\ UNCHANGED <<lastFrame, eventLog, assign>>

AssistantFinal(runId) ==
  /\ eventCount < MaxEvents
  /\ handleAssistantFinal(runId)
  /\ UNCHANGED <<lastFrame, eventLog, assign>>

\* await this.findTaskByRunId(runId) resolves; `if (!task) return`; a
\* lifecycle:end handler then takes and deletes the accumulator entry
FindTask(i) ==
  LET h == handlers[i]
      task == findTaskByRunId(h.runId)
  IN /\ h.pc = "find"
     /\ IF task = NoTask
        THEN finish(i) /\ UNCHANGED outputAccumulators
        ELSE IF h.kind = "end"
        THEN /\ handlers' = [handlers EXCEPT ![i].task = task, ![i].pc = "updTask",
                                             ![i].output = accumulated(h.runId)]
             /\ outputAccumulators' =
                  [r \in DOMAIN outputAccumulators \ {h.runId} |-> outputAccumulators[r]]
        ELSE /\ handlers' = [handlers EXCEPT ![i].task = task,
                               ![i].pc = CASE h.kind = "tool" -> "activity"
                                           [] h.kind = "delta" -> "updBuffer"
                                           [] OTHER -> "updTask"]
             /\ UNCHANGED outputAccumulators
     /\ UNCHANGED <<tasks, agents, activities, outputBuffers, eventCount, endedRuns,
                    received, flushLog>>
     /\ UNCHANGED <<hubVars, clientVars, dashboard>>
     /\ UNCHANGED <<lastFrame, eventLog, assign>>

\* an error transition that leaves the output column alone
taskUpdate_errorKeepsOutput(h) ==
  CASE h.kind = "start" -> [tasks[h.task] EXCEPT !.status = "in_progress"]
    [] h.kind = "end" -> [tasks[h.task] EXCEPT !.status = "done", !.outcome = "success",
                                                !.output = h.output,
                                                !.tokensUsed = Tokens[h.runId]]
    [] h.kind = "error" -> [tasks[h.task] EXCEPT !.status = "blocked", !.outcome = "failed"]

\* the task row a handler writes
taskUpdate(h) ==
  CASE h.kind = "start" -> [tasks[h.task] EXCEPT !.status = "in_progress"]
    [] h.kind = "end" -> [tasks[h.task] EXCEPT !.status = "done", !.outcome = "success",
                                                !.output = h.output,
                                                !.tokensUsed = Tokens[h.runId]]
    [] h.kind = "error" -> [tasks[h.task] EXCEPT !.status = "blocked", !.outcome = "failed",
                                                  !.output = h.arg]

\* await this.db.update(tasks)... resolves
UpdateTask(i) ==
  LET h == handlers[i]
  IN /\ h.pc = "updTask"
     /\ tasks' = [tasks EXCEPT ![h.task] = taskUpdate(h)]
     /\ flushLog' = IF h.kind = "end"
                    THEN flushLog \cup {[runId |-> h.runId, output |-> h.output,
                                         expected |-> h.expected]}
                    ELSE flushLog
     /\ goto(i, IF tasks[h.task].assignedAgentId = NoAgent THEN "activity"
                ELSE IF h.kind = "end" THEN "findAgent" ELSE "updAgent")
     /\ UNCHANGED <<agents, activities, outputBuffers, outputAccumulators, eventCount,
                    endedRuns, received>>
     /\ UNCHANGED <<hubVars, clientVars, dashboard>>
     /\ UNCHANGED <<lastFrame, eventLog, assign>>

\* handleLifecycleEnd: await this.db.query.agents.findFirst(...) resolves
FindAgent(i) ==
  LET h == handlers[i]
      a == tasks[h.task].assignedAgentId
  IN /\ h.pc = "findAgent"
     /\ handlers' = [handlers EXCEPT
                       ![i].agentRead = [completedTasks |-> agents[a].completedTasks,
                                         totalTokens |-> agents[a].totalTokens],
                       ![i].pc = "updAgent"]
     /\ UNCHANGED <<tasks, agents, activities, outputBuffers, outputAccumulators,
                    eventCount, endedRuns, received, flushLog>>
     /\ UNCHANGED <<hubVars, clientVars, dashboard>>
     /\ UNCHANGED <<lastFrame, eventLog, assign>>

\* an agent write that sets the status only
agentUpdate_statusOnly(h, agent) ==
  [agent EXCEPT !.status = IF h.kind = "start" THEN "working" ELSE "idle"]

\* the agent row a handler writes
agentUpdate(h, agent) ==
  CASE h.kind = "start" -> [agent EXCEPT !.status = "working"]
    [] h.kind = "end" -> [agent EXCEPT !.status = "idle",
                            !.completedTasks = h.agentRead.completedTasks + 1,
                            !.totalTokens = h.agentRead.totalTokens + Tokens[h.runId]]
    [] h.kind = "error" -> [agent EXCEPT !.status = "idle"]

\* await this.db.update(agents)... resolves
UpdateAgent(i) ==
  LET h == handlers[i]
      a == tasks[h.task].assignedAgentId
  IN /\ h.pc = "updAgent"
     /\ agents' = [agents EXCEPT ![a] = agentUpdate(h, agents[a])]
     /\ goto(i, "activity")
     /\ UNCHANGED <<tasks, activities, outputBuffers, outputAccumulators, eventCount,
                    endedRuns, received, flushLog>>
     /\ UNCHANGED <<hubVars, clientVars, dashboard>>
     /\ UNCHANGED <<lastFrame, eventLog, assign>>

taskUpdateMsg(h) == Msg("task_update", h.task)
agentUpdateMsg == Msg("agent_update", NoTask)

\* await this.createActivity(...) resolves; handleLifecycleStart goes on to the
\* buffer insert, the other handlers emit and return
CreateActivity(i) ==
  LET h == handlers[i]
      hasAgent == tasks[h.task].assignedAgentId # NoAgent
  IN /\ h.pc = "activity"
     /\ createActivity(h.task, CASE h.kind = "start" -> "task_started"
                                 [] h.kind = "end" -> "task_completed"
                                 [] h.kind = "error" -> "task_failed"
                                 [] h.kind = "tool" -> "status_changed")
     /\ IF h.kind = "start"
        THEN goto(i, "insBuffer") /\ UNCHANGED hubVars
        ELSE /\ finish(i)
             /\ emit(IF h.kind = "tool" THEN <<Msg("activity", h.task)>>
                     ELSE IF hasAgent THEN <<taskUpdateMsg(h), agentUpdateMsg>>
                     ELSE <<taskUpdateMsg(h)>>)
     /\ UNCHANGED <<tasks, agents, outputBuffers, outputAccumulators, eventCount,
                    endedRuns, received, flushLog>>
     /\ UNCHANGED <<clientVars, dashboard>>
     /\ UNCHANGED <<lastFrame, eventLog, assign>>

\* handleLifecycleStart: await this.db.insert(outputBuffers)...onConflictDoNothing()
\* resolves (the row's id is fresh); then the emits
InsertBuffer(i) ==
  LET h == handlers[i]
      hasAgent == tasks[h.task].assignedAgentId # NoAgent
  IN /\ h.pc = "insBuffer"
     /\ outputBuffers' = [outputBuffers EXCEPT ![h.runId] = Append(@, << >>)]
     /\ finish(i)
     /\ emit(IF hasAgent THEN <<taskUpdateMsg(h), agentUpdateMsg>> ELSE <<taskUpdateMsg(h)>>)
     /\ UNCHANGED <<tasks, agents, activities, outputAccumulators, eventCount,
                    endedRuns, received, flushLog>>
     /\ UNCHANGED <<clientVars, dashboard>>
     /\ UNCHANGED <<lastFrame, eventLog, assign>>

\* handleAssistantDelta: await this.db.update(outputBuffers)... resolves; then the emit
UpdateBuffer(i) ==
  LET h == handlers[i]
  IN /\ h.pc = "updBuffer"
     /\ outputBuffers' = [outputBuffers EXCEPT
                            ![h.runId] = [k \in 1..Len(@) |-> h.output]]
     /\ finish(i)
     /\ emit(<<Msg("output_delta", h.task)>>)
     /\ UNCHANGED <<tasks, agents, activities, outputAccumulators, eventCount,
                    endedRuns, received, flushLog>>
     /\ UNCHANGED <<clientVars, dashboard>>
     /\ UNCHANGED <<lastFrame, eventLog, assign>>

NextBridge ==
  \/ \E r \in EventRuns : LifecycleStart(r)
  \/ \E r \in EventRuns : LifecycleEnd(r)
  \/ \E r \in EventRuns : LifecycleError(r)
  \/ \E r \in EventRuns : ToolCall(r)
  \/ \E r \in EventRuns, text \in Texts : AssistantDelta(r, text)
  \/ \E r \in EventRuns : AssistantFinal(r)
  \/ \E i \in 1..Len(handlers) : FindTask(i)
  \/ \E i \in 1..Len(handlers) : UpdateTask(i)
  \/ \E i \in 1..Len(handlers) : FindAgent(i)
  \/ \E i \in 1..Len(handlers) : UpdateAgent(i)
  \/ \E i \in 1..Len(handlers) : CreateActivity(i)
  \/ \E i \in 1..Len(handlers) : InsertBuffer(i)
  \/ \E i \in 1..Len(handlers) : UpdateBuffer(i)

(***************************************************************************)
(* Gateway frames: the 'message' handler and the event normaliser          *)
(***************************************************************************)
MaxFrames == 2      \* frames the 'message' handler gets

\* a parser that takes every text
decodable_lenient(frame) == TRUE

\* JSON.parse(data.toString()) does not throw
decodable(frame) == frame.wellFormed

Ev(name, runId, text) == [name |-> name, runId |-> runId, text |-> text]

\* processAgentEvent(payload): the events it emits
processAgentEvent(f) ==
  CASE f.sub = "lifecycle" /\ f.phase = "start" -> <<Ev("lifecycle:start", f.runId, << >>)>>
    [] f.sub = "lifecycle" /\ f.phase = "end" -> <<Ev("lifecycle:end", f.runId, << >>)>>
    [] f.sub = "lifecycle" /\ f.phase = "error" -> <<Ev("lifecycle:error", f.runId, ErrorText)>>
    [] f.sub = "tool" -> <<Ev("tool:call", f.runId, << >>)>>
    [] f.sub = "assistant" -> <<Ev("assistant:delta", f.runId, f.text)>>
    [] OTHER -> << >>

\* processChatEvent(payload): the events it emits
processChatEvent(f) ==
  CASE f.sub = "delta" -> <<Ev("assistant:delta", f.runId, f.text)>>
    [] f.sub = "final" -> <<Ev("assistant:final", f.runId, f.text)>>
    [] OTHER -> << >>

\* processRawEvent(event): emit(event.type, event.payload) first, then the
\* events of the agent or chat payload
processRawEvent(f) ==
  <<Ev(f.type, f.runId, f.text)>>
    \o (IF f.type = "agent" THEN processAgentEvent(f) ELSE << >>)
    \o (IF f.type = "chat" THEN processChatEvent(f) ELSE << >>)

\* the event names the bridge listens to
Listened == {"lifecycle:start", "lifecycle:end", "lifecycle:error", "tool:call",
             "assistant:delta", "assistant:final"}

IsListened(e) == e.name \in Listened

\* the events of a frame that reach a listener of the bridge (at most one)
listened(f) == SelectSeq(processRawEvent(f), IsListened)

\* the bridge's listener for event e calls its handler
listen(e) ==
  CASE e.name = "lifecycle:start" -> handleLifecycleStart(e.runId)
    [] e.name = "lifecycle:end" -> handleLifecycleEnd(e.runId)
    [] e.name = "lifecycle:error" -> handleLifecycleError(e.runId)
    [] e.name = "tool:call" -> handleToolCall(e.runId)
    [] e.name = "assistant:delta" -> handleAssistantDelta(e.runId, e.text)
    [] e.name = "assistant:final" -> handleAssistantFinal(e.runId)

\* ws.on('message') of the open socket: parse, processRawEvent; a thrown error
\* is caught and logged
Message(f) ==
  /\ gatewayWs = "OPEN"
  /\ eventCount < MaxFrames
  /\ lastFrame' = f
  /\ UNCHANGED <<eventLog, assign>>
  /\ IF decodable(f) /\ listened(f) # << >>
     THEN listen(Head(listened(f)))
     ELSE /\ eventCount' = eventCount + 1
          /\ UNCHANGED <<tasks, agents, activities, outputBuffers, outputAccumulators,
                         handlers, endedRuns, received, flushLog>>
          /\ UNCHANGED <<hubVars, clientVars, dashboard>>

NextGateway ==
  \/ OwnerConnect
  \/ Open
  \/ \E f \in GatewayFrames \cup TruncatedFrames : Message(f)
  \/ \E i \in 1..Len(handlers) : FindTask(i)
  \/ \E i \in 1..Len(handlers) : UpdateTask(i)
  \/ \E i \in 1..Len(handlers) : FindAgent(i)
  \/ \E i \in 1..Len(handlers) : UpdateAgent(i)
  \/ \E i \in 1..Len(handlers) : CreateActivity(i)
  \/ \E i \in 1..Len(handlers) : InsertBuffer(i)
  \/ \E i \in 1..Len(handlers) : UpdateBuffer(i)

(***************************************************************************)
(* One run's events, each delivered after the handler before it returned   *)
(***************************************************************************)
MaxSeqEvents == 4   \* events delivered one after the other

SeqKinds == {"start", "end", "error", "tool", "delta", "final"}

\* the listener is called with the next event of run r1 when no handler is in flight
SeqEvent(kind, text) ==
  /\ handlers = << >>
  /\ Len(eventLog) < MaxSeqEvents
  /\ eventLog' = Append(eventLog, [kind |-> kind, text |-> text])
  /\ UNCHANGED <<lastFrame, assign>>
  /\ CASE kind = "start" -> handleLifecycleStart("r1")
       [] kind = "end" -> handleLifecycleEnd("r1")
       [] kind = "error" -> handleLifecycleError("r1")
       [] kind = "tool" -> handleToolCall("r1")
       [] kind = "delta" -> handleAssistantDelta("r1", text)
       [] kind = "final" -> handleAssistantFinal("r1")

NextSequential ==
  \/ \E kind \in SeqKinds \ {"delta"} : SeqEvent(kind, << >>)
  \/ \E text \in Texts : SeqEvent("delta", text)
  \/ \E i \in 1..Len(handlers) : FindTask(i)
  \/ \E i \in 1..Len(handlers) : UpdateTask(i)
  \/ \E i \in 1..Len(handlers) : FindAgent(i)
  \/ \E i \in 1..Len(handlers) : UpdateAgent(i)
  \/ \E i \in 1..Len(handlers) : CreateActivity(i)
  \/ \E i \in 1..Len(handlers) : InsertBuffer(i)
  \/ \E i \in 1..Len(handlers) : UpdateBuffer(i)

(***************************************************************************)
(* Observer-side client: the dashboard's useWebSocket store                *)
(***************************************************************************)
MaxDash == 2              \* the user calls connect() while fewer sockets and timers are pending
dashMaxAttempts == 10     \* `if (attempts < 10)`

NoDashTimers == [k \in 0..(dashMaxAttempts - 1) |-> 0]

InitDashboard ==
  dashboard = [socket |-> "null", isConnected |-> FALSE, reconnectAttempts |-> 0,
               detached |-> [st \in SocketStates |-> 0], timers |-> NoDashTimers,
               userDisconnected |-> FALSE]

RECURSIVE SumFrom0(_, _)
SumFrom0(f, n) == IF n < 0 THEN 0 ELSE f[n] + SumFrom0(f, n - 1)

\* pending reconnect timers of the store
DashTimers == SumFrom0(dashboard.timers, dashMaxAttempts - 1)

\* sockets of the store that are open or connecting, the one it refers to or not
DashOpenOrConnecting ==
  dashboard.detached["CONNECTING"] + dashboard.detached["OPEN"]
    + (IF dashboard.socket \in {"CONNECTING", "OPEN"} THEN 1 ELSE 0)

DashLive == DashOpenOrConnecting + dashboard.detached["CLOSING"]

\* connect(): return when the store's socket is OPEN, else a new socket
\* replaces it (the old one is not closed)
dashConnect(d) ==
  IF d.socket = "OPEN" THEN d
  ELSE [d EXCEPT !.socket = "CONNECTING", !.detached = detach(d.detached, d.socket)]

\* ws.onclose: set({isConnected: false, socket: null}), then a timer when
\* reconnectAttempts < 10; the timer keeps the attempts read here
dashOnClose(d) ==
  [d EXCEPT !.isConnected = FALSE, !.socket = "null",
            !.timers = IF d.reconnectAttempts < dashMaxAttempts
                       THEN [@ EXCEPT ![d.reconnectAttempts] = @ + 1]
                       ELSE @]

DashStep == UNCHANGED <<hubVars, clientVars, bridgeVars>>

\* the user calls connect()
DashConnect ==
  /\ DashLive + DashTimers < MaxDash
  /\ dashboard' = [dashConnect(dashboard) EXCEPT !.userDisconnected = FALSE]
  /\ DashStep

\* the setTimeout callback of ws.onclose
DashTimerFire(k) ==
  /\ dashboard.timers[k] > 0
  /\ dashboard' = dashConnect([dashboard EXCEPT !.timers[k] = @ - 1,
                                                !.reconnectAttempts = k + 1])
  /\ DashStep

\* ws.onopen of the socket the store refers to
DashOpen ==
  /\ dashboard.socket = "CONNECTING"
  /\ dashboard' = [dashboard EXCEPT !.socket = "OPEN", !.isConnected = TRUE,
                                    !.reconnectAttempts = 0]
  /\ DashStep

\* ws.onopen of a socket the store no longer refers to
DashOpenDetached ==
  /\ dashboard.detached["CONNECTING"] > 0
  /\ dashboard' = [dashboard EXCEPT !.detached["CONNECTING"] = @ - 1,
                                    !.detached["OPEN"] = @ + 1,
                                    !.isConnected = TRUE, !.reconnectAttempts = 0]
  /\ DashStep

\* ws.onclose of the socket the store refers to
DashClose ==
  /\ dashboard.socket \in {"CONNECTING", "OPEN"}
  /\ dashboard' = dashOnClose(dashboard)
  /\ DashStep

\* ws.onclose of a socket the store no longer refers to: the socket the store
\* refers to is dropped from the store with its handlers attached
DashCloseDetached(st) ==
  /\ dashboard.detached[st] > 0
  /\ dashboard' = dashOnClose([dashboard EXCEPT
                                 !.detached = detach([@ EXCEPT ![st] = @ - 1],
                                                     dashboard.socket)])
  /\ DashStep

\* disconnect(): `if (socket) { socket.close(); set({socket: null, isConnected: false}) }`
DashDisconnect ==
  /\ dashboard' = IF dashboard.socket = "null"
                  THEN [dashboard EXCEPT !.userDisconnected = TRUE]
                  ELSE [dashboard EXCEPT !.detached["CLOSING"] = @ + 1,
                                         !.socket = "null", !.isConnected = FALSE,
                                         !.userDisconnected = TRUE]
  /\ DashStep

NextDashboard ==
  \/ DashConnect
  \/ \E k \in 0..(dashMaxAttempts - 1) : DashTimerFire(k)
  \/ DashOpen
  \/ DashOpenDetached
  \/ DashClose
  \/ \E st \in SocketStates : DashCloseDetached(st)
  \/ DashDisconnect

(***************************************************************************)
(* assignTaskToAgent(t2, a1) and the events of the run it starts           *)
(***************************************************************************)
\* t1 is assigned with its run, t2 is not assigned yet
InitAssign ==
  /\ InitHub /\ InitClient /\ InitReconciler /\ InitDashboard
  /\ tasks = [AssignedTasks EXCEPT !["t2"].status = "todo",
                                   !["t2"].assignedAgentId = NoAgent,
                                   !["t2"].openclawRunId = NoRun]

AssignStep(pc) ==
  /\ UNCHANGED <<outputBuffers, outputAccumulators, handlers, eventCount, endedRuns,
                 received, flushLog, lastFrame, eventLog>>
  /\ UNCHANGED <<hubVars, clientVars, dashboard>>
  /\ assign'.pc = pc

\* the task and agent lookups, then `if (openclawClient.isConnected)`: the
\* agent RPC is sent and the gateway accepts the run or answers with a failure
AssignCall(ok) ==
  /\ assign.pc = "idle"
  /\ assign' = IF gatewayWs = "OPEN"
               THEN [assign EXCEPT !.pc = "rpc", !.accepted = ok]
               ELSE [assign EXCEPT !.pc = "updTask"]
  /\ AssignStep(assign'.pc)
  /\ UNCHANGED <<tasks, agents, activities>>

\* await openclawClient.runAgent(...) resolves with the run id, or throws and
\* the catch leaves runId undefined
AssignRpcReturn ==
  /\ assign.pc = "rpc"
  /\ assign' = [assign EXCEPT !.pc = "updTask",
                              !.runId = IF assign.accepted THEN "r2" ELSE NoRun]
  /\ AssignStep("updTask")
  /\ UNCHANGED <<tasks, agents, activities>>

\* await db.update(tasks).set({status: 'assigned', ..., openclawRunId: runId})
AssignUpdateTask ==
  /\ assign.pc = "updTask"
  /\ tasks' = [tasks EXCEPT !["t2"].status = "assigned",
                            !["t2"].assignedAgentId = "a1",
                            !["t2"].openclawRunId = assign.runId]
  /\ assign' = [assign EXCEPT !.pc = "updAgent"]
  /\ AssignStep("updAgent")
  /\ UNCHANGED <<agents, activities>>

\* await db.update(agents).set({..., status: 'working'})
AssignUpdateAgent ==
  /\ assign.pc = "updAgent"
  /\ agents' = [agents EXCEPT !["a1"].status = "working"]
  /\ assign' = [assign EXCEPT !.pc = "activity"]
  /\ AssignStep("activity")
  /\ UNCHANGED <<tasks, activities>>

\* await db.insert(activities).values({..., action: 'task_assigned'})
AssignActivity ==
  /\ assign.pc = "activity"
  /\ createActivity("t2", "task_assigned")
  /\ assign' = [assign EXCEPT !.pc = "done"]
  /\ AssignStep("done")
  /\ UNCHANGED <<tasks, agents>>

\* the gateway reports the start of the run it accepted; no handler is in flight
RunStart ==
  /\ assign.accepted /\ ~assign.started
  /\ handlers = << >>
  /\ handleLifecycleStart("r2")
  /\ assign' = [assign EXCEPT !.started = TRUE]
  /\ UNCHANGED <<lastFrame, eventLog>>

\* the gateway reports output of the started run
RunDelta(text) ==
  /\ assign.started /\ ~assign.ended
  /\ handlers = << >>
  /\ eventCount < MaxEvents
  /\ handleAssistantDelta("r2", text)
  /\ UNCHANGED <<lastFrame, eventLog, assign>>

\* the gateway reports the end of the started run
RunEnd ==
  /\ assign.started /\ ~assign.ended
  /\ handlers = << >>
  /\ handleLifecycleEnd("r2")
  /\ assign' = [assign EXCEPT !.ended = TRUE]
  /\ UNCHANGED <<lastFrame, eventLog>>

\* the gateway reports the failure of the started run
RunError ==
  /\ assign.started /\ ~assign.ended
  /\ handlers = << >>
  /\ handleLifecycleError("r2")
  /\ assign' = [assign EXCEPT !.ended = TRUE]
  /\ UNCHANGED <<lastFrame, eventLog>>

NextAssign ==
  \/ OwnerConnect
  \/ Open
  \/ \E ok \in BOOLEAN : AssignCall(ok)
  \/ AssignRpcReturn
  \/ AssignUpdateTask
  \/ AssignUpdateAgent
  \/ AssignActivity
  \/ RunStart
  \/ \E text \in Texts : RunDelta(text)
  \/ RunEnd
  \/ RunError
  \/ \E i \in 1..Len(handlers) : FindTask(i)
  \/ \E i \in 1..Len(handlers) : UpdateTask(i)
  \/ \E i \in 1..Len(handlers) : FindAgent(i)
  \/ \E i \in 1..Len(handlers) : UpdateAgent(i)
  \/ \E i \in 1..Len(handlers) : CreateActivity(i)
  \/ \E i \in 1..Len(handlers) : InsertBuffer(i)
  \/ \E i \in 1..Len(handlers) : UpdateBuffer(i)

(***************************************************************************)
(* Lifecycle events of the two runs of one agent                           *)
(***************************************************************************)
TaskRuns == {"r1", "r2"}           \* the runs of t1 and t2, both assigned to a1

NextAgentRuns ==
  \/ \E r \in TaskRuns : LifecycleStart(r)
  \/ \E r \in TaskRuns : LifecycleEnd(r)
  \/ \E r \in TaskRuns : LifecycleError(r)
  \/ \E i \in 1..Len(handlers) : FindTask(i)
  \/ \E i \in 1..Len(handlers) : UpdateTask(i)
  \/ \E i \in 1..Len(handlers) : FindAgent(i)
  \/ \E i \in 1..Len(handlers) : UpdateAgent(i)
  \/ \E i \in 1..Len(handlers) : CreateActivity(i)
  \/ \E i \in 1..Len(handlers) : InsertBuffer(i)

Init == InitHub /\ InitClient /\ InitBridge /\ InitDashboard

SpecHub == Init /\ [][NextHub]_vars

SpecClient == Init /\ [][NextClient]_vars

SpecBridge == Init /\ [][NextBridge]_vars

SpecGateway == Init /\ [][NextGateway]_vars

SpecSequential == Init /\ [][NextSequential]_vars

SpecAssign == InitAssign /\ [][NextAssign]_vars

SpecAgentRuns == Init /\ [][NextAgentRuns]_vars

SpecDashboard == Init /\ [][NextDashboard]_vars

(***************************************************************************)
(* Properties of the broadcast hub                                         *)
(***************************************************************************)
TaskScoped == {"task_update", "output_delta"}

\* C3: a task_update or output_delta routed through the hub's ws:broadcast
\* listener reaches every connection at most once, also a connection that is
\* subscribed to the message's task.
C3_AtMostOneCopy ==
  (lastOp.op = "bridge" /\ lastOp.message.type \in TaskScoped)
    => \A c \in Conns : Len(sent[c]) <= 1

\* C8: a registered connection pinged by the heartbeat that sent no pong since
\* is removed, with its subscription set, at the next tick; a connection that
\* is no longer registered is written to by no later operation.
C8_HeartbeatEviction ==
  [][\A c \in Conns :
       /\ (lastOp' # lastOp /\ lastOp'.op = "tick"
             /\ c \in Registered /\ awaitingPong[c])
            => (c \notin Registered' /\ readyState'[c] # "OPEN")
       /\ (lastOp' # lastOp /\ c \notin Registered /\ readyState[c] # "NEW")
            => sent'[c] = << >>]_vars

C8_Witness ==
  \E c \in Conns :
    /\ c \notin Registered /\ readyState[c] = "CLOSING"
    /\ lastOp.op = "bridge" /\ lastOp.message.type \in TaskScoped
    /\ sent[c] = << >>
    /\ \E d \in Conns \ {c} : sent[d] # << >>

\* C9: broadcastToTask(T, m) writes m only to registered connections whose
\* subscription set holds T when it is called.
C9_TaskScopedOnlyToSubscribers ==
  [][(lastOp' # lastOp /\ lastOp'.op = "broadcastToTask") =>
       \A c \in Conns :
         sent'[c] # << >> =>
           /\ c \in Registered
           /\ lastOp'.message.taskId \in clients[c].subscribedTasks
           /\ sent'[c] = <<lastOp'.message>>]_vars

C9_Witness ==
  /\ lastOp.op = "broadcastToTask" /\ lastOp.message.taskId = "t2"
  /\ \E c, d \in Registered :
       /\ clients[c].subscribedTasks = {"t1"} /\ readyState[c] = "OPEN"
       /\ sent[c] = << >>
       /\ clients[d].subscribedTasks = {"t1", "t2"} /\ sent[d] = <<lastOp.message>>

\* C10: broadcast(m) writes exactly one copy of m to every registered
\* connection whose socket is OPEN, whatever its subscriptions, and nothing to
\* any other connection.
C10_BroadcastAllExactlyOnce ==
  [][(lastOp' # lastOp /\ lastOp'.op = "broadcast") =>
       \A c \in Conns :
         sent'[c] = IF c \in Registered /\ readyState[c] = "OPEN"
                    THEN <<lastOp'.message>>
                    ELSE << >>]_vars

C10_Witness ==
  /\ lastOp.op = "broadcast"
  /\ \E c, d \in Conns :
       /\ c \in Registered /\ clients[c].subscribedTasks = {"t1"}
       /\ sent[c] = <<lastOp.message>>
       /\ d \notin Registered /\ readyState[d] \in {"CLOSING", "CLOSED"}
       /\ sent[d] = << >>

(***************************************************************************)
(* Properties of the gateway connection manager                            *)
(***************************************************************************)
\* C6: after the owner's disconnect() no new gateway socket is created until
\* the owner calls connect() again.
C6_NoSocketAfterDisconnect ==
  [][(ownerDisconnected /\ ownerDisconnected') => LiveSockets' <= LiveSockets]_vars

\* C7: the attempt counter never exceeds the ceiling, at most
\* maxReconnectAttempts reconnections are scheduled without an 'open' in
\* between, and with the counter at the ceiling no timer is scheduled.
C7_ReconnectCeiling ==
  /\ [](reconnectAttempts <= maxReconnectAttempts
         /\ scheduledSinceOpen <= maxReconnectAttempts)
  /\ [][PendingTimers' > PendingTimers =>
          /\ reconnectAttempts < maxReconnectAttempts
          /\ reconnectAttempts' = reconnectAttempts + 1]_vars

C7_Witness ==
  /\ scheduledSinceOpen = maxReconnectAttempts
  /\ reconnectAttempts = maxReconnectAttempts
  /\ gatewayWs = "CLOSED" /\ PendingTimers = 0 /\ DetachedCount = 0
  /\ ~ownerDisconnected

(***************************************************************************)
(* Properties of the task-state reconciler                                 *)
(***************************************************************************)
\* the runs of agent a's tasks whose lifecycle:end was delivered
EndedRunsOf(a) ==
  {r \in endedRuns : /\ findTaskByRunId(r) # NoTask
                     /\ tasks[findTaskByRunId(r)].assignedAgentId = a}

RECURSIVE SumTokens(_)
SumTokens(runs) ==
  IF runs = {} THEN 0
  ELSE LET r == CHOOSE x \in runs : TRUE IN Tokens[r] + SumTokens(runs \ {r})

\* C1: however often lifecycle:end is delivered for a run, the owning agent's
\* completedTasks grows by one and its totalTokens by the run's tokens: the
\* counters never exceed one increment per ended run.
C1_CountersOncePerRun ==
  \A a \in AgentIds :
    /\ agents[a].completedTasks <= Cardinality(EndedRunsOf(a))
    /\ agents[a].totalTokens <= SumTokens(EndedRunsOf(a))

\* C2: no gateway event delivered after a task became done takes it back to
\* in_progress (the lifecycle:start handlers in flight were all called with the
\* task already done).
C2_DoneNeverRegresses ==
  [][\A t \in TaskIds :
       (/\ tasks[t].status = "done"
        /\ \A i \in 1..Len(handlers) : handlers[i].kind = "start" => handlers[i].afterDone)
         => tasks'[t].status # "in_progress"]_vars

\* C4: the output a lifecycle:end handler stores is the concatenation of the
\* delta texts delivered for its run before that lifecycle:end was delivered.
C4_FlushIsTextBeforeEnd ==
  \A f \in flushLog : f.output = f.expected

\* C5: events are reconciled one at a time: a handler performs its lookup only
\* after every handler of an earlier event has returned.
C5_OneHandlerAtATime ==
  \A i \in 2..Len(handlers) : handlers[i].pc = "find"

\* the run of no task row
Orphan(runId) == \A t \in TaskIds : tasks[t].openclawRunId # runId

\* handler i takes the step (it moves to its next await or returns)
StepOf(i) ==
  /\ i \in 1..Len(handlers)
  /\ \/ handlers' = RemoveAt(handlers, i)
     \/ Len(handlers') = Len(handlers) /\ handlers'[i] # handlers[i]

\* handler i returns in the step
Returns(i) == i \in 1..Len(handlers) /\ handlers' = RemoveAt(handlers, i)

\* C11: a run has at most one task_completed activity, however often its
\* lifecycle:end is delivered (each task of the model has one run).
C11_OneCompletedActivityPerRun ==
  \A t \in TaskIds : activities[<<t, "task_completed">>] <= 1

\* C12: a lifecycle:end processed for a task that an earlier lifecycle:end
\* already completed (no other handler in flight, the task done with the whole
\* text delivered for the run as output) leaves status, outcome, output and
\* tokensUsed as they are.
C12_EndTwiceSameProjection ==
  [][\A i \in 1..Len(handlers) :
       (/\ Len(handlers) = 1 /\ StepOf(i)
        /\ handlers[i].kind = "end" /\ handlers[i].pc = "updTask"
        /\ tasks[handlers[i].task].status = "done"
        /\ tasks[handlers[i].task].output = handlers[i].expected)
         => tasks'[handlers[i].task] = tasks[handlers[i].task]]_vars

\* C13: when the handler of a run's lifecycle:end or lifecycle:error returns
\* (no other handler in flight, no delta delivered since that event), the
\* in-memory accumulator holds no entry for the run.
C13_NoEntryAfterTerminal ==
  [][\A i \in 1..Len(handlers) :
       (/\ Len(handlers) = 1 /\ Returns(i)
        /\ handlers[i].kind \in {"end", "error"} /\ handlers[i].pc = "activity"
        /\ handlers[i].expected = received[handlers[i].runId])
         => handlers[i].runId \notin DOMAIN outputAccumulators']_vars

\* C14: a run has at most one row in output_buffers (and one accumulator entry:
\* the map is keyed by run), also when lifecycle:start is delivered again.
C14_OneBufferPerRun ==
  \A r \in RunIds : Len(outputBuffers[r]) <= 1

\* C16: the in-memory accumulator holds no entry for a run of no task.
C16_NoEntryForOrphanRun ==
  \A r \in DOMAIN outputAccumulators : ~Orphan(r)

\* what a handler of a run of no task must leave alone
reconciled == <<tasks, agents, activities, outputBuffers, lastOp, sent>>

\* C15: an event of any variant whose run resolves to no task changes no task,
\* agent, activity or buffer row and emits nothing, when it is delivered and
\* when its handler runs; the handler returns at its lookup and leaves the
\* handlers of other events as they are.
C15_OrphanEventIsNoOp ==
  [][/\ (/\ Len(handlers') = Len(handlers) + 1
         /\ Orphan(handlers'[Len(handlers')].runId))
          => UNCHANGED reconciled
     /\ \A i \in 1..Len(handlers) :
          (StepOf(i) /\ Orphan(handlers[i].runId))
            => (Returns(i) /\ UNCHANGED reconciled)]_vars

\* an assistant:delta of the run of no task was delivered and handled, and the
\* events of t1's run were reconciled: t1 is done
C15_Witness ==
  /\ received["r3"] # << >>
  /\ handlers = << >>
  /\ tasks["t1"].status = "done" /\ activities[<<"t1", "task_completed">>] = 1
  /\ \A t \in TaskIds : activities[<<t, "status_changed">>] = 0

(***************************************************************************)
(* Further properties of the gateway connection manager                    *)
(***************************************************************************)
\* C17: a connect() call of the owner made while the manager's socket is
\* connecting or open creates no additional socket (a step that creates a
\* socket and consumes no timer is the owner's connect()).
C17_ConnectIdempotent ==
  [][(/\ gatewayWs \in {"CONNECTING", "OPEN"}
      /\ PendingTimers' = PendingTimers)
       => LiveSockets' <= LiveSockets]_vars

\* C18: in what an 'open' handler does, the subscription handshake frame is
\* sent before the connected event is emitted.
C18_HandshakeBeforeConnected ==
  \A i \in 1..Len(emitted) :
    emitted[i] = "connected" => \E j \in 1..(i - 1) : emitted[j] = "subscribe"

\* the notifications every lost connection gets, and the console log
Ordinary == {"error", "disconnected", "console.error"}

\* C19: when a connection is lost after maxReconnectAttempts reconnections
\* were scheduled without an 'open' (the 'close' handler sets no timer), the
\* handlers of that loss emit or settle something beyond the ordinary
\* notifications: a fatal event or a rejected promise.
C19_FatalAtCeiling ==
  (/\ scheduledSinceOpen = maxReconnectAttempts
   /\ ~ownerDisconnected
   /\ \E i \in 1..Len(emitted) : emitted[i] = "disconnected"
   /\ \A i \in 1..Len(emitted) : emitted[i] # "setTimeout")
    => \E i \in 1..Len(emitted) : emitted[i] \notin Ordinary

DelayTable == <<1000, 2000, 4000, 8000, 16000>>

\* C20: the k-th reconnection scheduled since the last 'open' (k = 1..10) gets
\* the delay 1000 * 2^(k-1) ms, that is 1000, 2000, 4000, 8000, 16000 for
\* k = 1..5; an 'open' sets the attempt counter to 0, and a reconnection
\* scheduled with the counter at 0 gets 1000 ms.
C20_BackoffDelays ==
  /\ [][PendingTimers' > PendingTimers =>
          /\ scheduledSinceOpen' \in 1..maxReconnectAttempts
          /\ lastDelay' = 1000 * 2^(scheduledSinceOpen' - 1)
          /\ scheduledSinceOpen' <= 5 => lastDelay' = DelayTable[scheduledSinceOpen']
          /\ reconnectAttempts = 0 => lastDelay' = 1000]_vars
  /\ [][(emitted' # << >> /\ emitted'[1] = "connected") => reconnectAttempts' = 0]_vars

\* the fifth reconnection in a row was scheduled (its timer is pending), a
\* connection then opened and was lost, and the reconnection after it is
\* scheduled with 1000 ms
C20_Witness ==
  /\ timers[5] = 1 /\ timers[1] = 1
  /\ reconnectAttempts = 1 /\ scheduledSinceOpen = 1
  /\ lastDelay = 1000

(***************************************************************************)
(* Properties of the 'message' handler and the normaliser                  *)
(***************************************************************************)
\* the step is the 'message' handler getting a frame
FrameStep == eventCount' = eventCount + 1

\* C21: a frame that cannot be decoded changes nothing: the socket stays open,
\* no timer is scheduled, the attempt counter, the tables, the accumulator and
\* the handlers in flight are as before, nothing is broadcast; the frame after
\* it, when it reports the start of a run, calls the start handler as ever.
C21_UndecodableFrameDropped ==
  /\ [][(FrameStep /\ ~lastFrame'.wellFormed) =>
          /\ gatewayWs' = "OPEN"
          /\ UNCHANGED <<clientVars, hubVars>>
          /\ UNCHANGED <<tasks, agents, activities, outputBuffers, outputAccumulators,
                         handlers, endedRuns, received, flushLog>>]_vars
  /\ [][(/\ FrameStep /\ ~lastFrame.wellFormed
         /\ lastFrame' = Frame("agent", "lifecycle", "start", "r1", << >>))
          => /\ Len(handlers') = Len(handlers) + 1
             /\ handlers'[Len(handlers')].kind = "start"
             /\ handlers'[Len(handlers')].runId = "r1"]_vars

\* a truncated frame came while the start handler of an earlier frame was at
\* its task update; the socket is open and the handler is where it was
C21_Witness ==
  /\ ~lastFrame.wellFormed /\ lastFrame.type = "agent"
  /\ gatewayWs = "OPEN" /\ eventCount = 2
  /\ Len(handlers) = 1 /\ handlers[1].kind = "start" /\ handlers[1].pc = "updTask"
  /\ PendingTimers = 0 /\ reconnectAttempts = 0

\* the class/stream/state combinations the normaliser has a row for
ListedRow(f) ==
  \/ f.type = "agent" /\ f.sub = "lifecycle" /\ f.phase \in {"start", "end", "error"}
  \/ f.type = "agent" /\ f.sub \in {"tool", "assistant"}
  \/ f.type = "chat" /\ f.sub \in {"delta", "final"}

\* C24: a well-formed frame of any other combination calls no handler of the
\* bridge and changes no table, accumulator entry or broadcast.
C24_UnlistedFrameDiscarded ==
  [][(FrameStep /\ lastFrame'.wellFormed /\ ~ListedRow(lastFrame')) =>
       /\ handlers' = handlers
       /\ UNCHANGED <<tasks, agents, activities, outputBuffers, outputAccumulators,
                      lastOp, sent>>]_vars

(***************************************************************************)
(* Properties of one run's events handled one after the other              *)
(***************************************************************************)
RECURSIVE ConcatTexts(_)
ConcatTexts(log) ==
  IF log = << >> THEN << >> ELSE Head(log).text \o ConcatTexts(Tail(log))

RECURSIVE CountKind(_, _)
CountKind(log, kind) ==
  IF log = << >> THEN 0
  ELSE (IF Head(log).kind = kind THEN 1 ELSE 0) + CountKind(Tail(log), kind)

AllDeltas(log) == \A i \in 1..Len(log) : log[i].kind = "delta"

\* C22: with lifecycle:start, then deltas, then lifecycle:end of run r1 (task
\* t1, agent a1, tokens Tokens["r1"]) handled one after the other: after the
\* start and the deltas t1 is in_progress and a1 working; after the end t1 is
\* done with outcome success, the concatenated delta texts as output and the
\* run's tokens as tokensUsed, and a1 is idle with completedTasks grown by 1
\* and totalTokens by the run's tokens (both were 0).
C22_StartDeltasEnd ==
  (handlers = << >> /\ eventLog # << >> /\ eventLog[1].kind = "start") =>
    /\ AllDeltas(Tail(eventLog)) =>
         tasks["t1"].status = "in_progress" /\ agents["a1"].status = "working"
    /\ (/\ Len(eventLog) >= 2 /\ eventLog[Len(eventLog)].kind = "end"
        /\ AllDeltas(SubSeq(eventLog, 2, Len(eventLog) - 1))) =>
         /\ tasks["t1"].status = "done" /\ tasks["t1"].outcome = "success"
         /\ tasks["t1"].output = ConcatTexts(SubSeq(eventLog, 2, Len(eventLog) - 1))
         /\ tasks["t1"].tokensUsed = Tokens["r1"]
         /\ agents["a1"].status = "idle"
         /\ agents["a1"].completedTasks = 1
         /\ agents["a1"].totalTokens = Tokens["r1"]

C22_Witness ==
  /\ handlers = << >>
  /\ Len(eventLog) = 4 /\ eventLog[1].kind = "start" /\ eventLog[4].kind = "end"
  /\ eventLog[2] = [kind |-> "delta", text |-> <<"a">>]
  /\ eventLog[3] = [kind |-> "delta", text |-> <<"b">>]
  /\ tasks["t1"].output = <<"a", "b">> /\ agents["a1"].totalTokens = 1

\* C23: when the handler of a lifecycle:error of run r1 has returned, t1 is
\* blocked with outcome failed and the error text as output, a1 is idle, there
\* is one task_failed activity per lifecycle:error handled, and a1's counters
\* are what the lifecycle:end events handled before made them.
C23_ErrorTransition ==
  (handlers = << >> /\ eventLog # << >> /\ eventLog[Len(eventLog)].kind = "error") =>
    /\ tasks["t1"].status = "blocked" /\ tasks["t1"].outcome = "failed"
    /\ tasks["t1"].output = ErrorText
    /\ agents["a1"].status = "idle"
    /\ activities[<<"t1", "task_failed">>] = CountKind(eventLog, "error")
    /\ agents["a1"].completedTasks = CountKind(eventLog, "end")
    /\ agents["a1"].totalTokens = CountKind(eventLog, "end") * Tokens["r1"]

C23_Witness ==
  /\ handlers = << >>
  /\ Len(eventLog) = 3 /\ eventLog[1].kind = "start" /\ eventLog[2].kind = "delta"
  /\ eventLog[3].kind = "error"
  /\ tasks["t1"].status = "blocked" /\ tasks["t1"].output = ErrorText
  /\ agents["a1"].completedTasks = 0 /\ activities[<<"t1", "task_failed">>] = 1

(***************************************************************************)
(* Properties of the assignment and the run it starts                      *)
(***************************************************************************)
\* C27: the lifecycle:start of the run the gateway accepted for t2 is applied
\* to t2: its handler does not return at the task lookup, and t2 is done or
\* blocked only after a task_started activity was recorded for it.
C27_StartOfAcceptedRunApplied ==
  /\ [][\A i \in 1..Len(handlers) :
          (/\ assign.accepted /\ handlers[i].kind = "start"
           /\ handlers[i].runId = "r2" /\ handlers[i].pc = "find" /\ StepOf(i))
            => ~Returns(i)]_vars
  /\ [](tasks["t2"].status \in {"done", "blocked"}
          => activities[<<"t2", "task_started">>] >= 1)

(***************************************************************************)
(* Properties of an agent with two runs                                    *)
(***************************************************************************)
\* C26: when the lifecycle:end of r1 and the lifecycle:end of r2 (both runs of
\* a1's tasks) were delivered, once each and nothing else, and both handlers
\* have returned, a1's completedTasks is 2 and its totalTokens the sum of the
\* two runs' tokens.
C26_NoLostAgentUpdate ==
  (handlers = << >> /\ eventCount = 2 /\ endedRuns = TaskRuns) =>
    /\ agents["a1"].completedTasks = 2
    /\ agents["a1"].totalTokens = Tokens["r1"] + Tokens["r2"]

\* C28: an agent is idle only if none of the tasks assigned to it is in_progress.
C28_IdleOnlyWithoutRunningTask ==
  \A a \in AgentIds :
    agents[a].status = "idle" =>
      \A t \in TaskIds : tasks[t].assignedAgentId = a => tasks[t].status # "in_progress"

(***************************************************************************)
(* Further properties of the connection manager and the hub                *)
(***************************************************************************)
\* gateway sockets that are open or connecting, their handlers attached
OpenOrConnecting ==
  detached["CONNECTING"] + detached["OPEN"]
    + (IF gatewayWs \in {"CONNECTING", "OPEN"} THEN 1 ELSE 0)

\* C25: at most one gateway socket of the manager is open or connecting.
C25_OneLiveGatewaySocket == OpenOrConnecting <= 1

\* C29: a heartbeat tick keeps, with its subscription set, every registered
\* connection that has no ping outstanding: one that answered the last ping
\* with a pong, or one that registered after the last tick.
C29_ResponsiveNeverEvicted ==
  [][\A c \in Conns :
       (/\ lastOp' # lastOp /\ lastOp'.op = "tick"
        /\ c \in Registered /\ ~awaitingPong[c])
         => /\ c \in Registered'
            /\ clients'[c].subscribedTasks = clients[c].subscribedTasks
            /\ readyState'[c] = readyState[c]]_vars

\* a tick kept the subscribed connection c and removed the silent connection d
C29_Witness ==
  /\ lastOp.op = "tick"
  /\ \E c, d \in Conns :
       /\ c \in Registered /\ readyState[c] = "OPEN"
       /\ clients[c].subscribedTasks = {"t1", "t2"} /\ awaitingPong[c]
       /\ d \notin Registered /\ readyState[d] = "CLOSING"

(***************************************************************************)
(* Properties of the observer-side client                                  *)
(***************************************************************************)
\* C30: from the user's disconnect() until the user's next connect() the
\* store creates no socket and sets no reconnect timer.
C30_NoReconnectAfterDashDisconnect ==
  [][(dashboard.userDisconnected /\ dashboard'.userDisconnected) =>
       /\ DashOpenOrConnecting' <= DashOpenOrConnecting
       /\ DashTimers' <= DashTimers]_vars

====
